---------------------------- MODULE Spec2Model ----------------------------
(***************************************************************************)
(* Memory-Persona-AI: the Memory Store, the memory extraction agent and    *)
(* the personality engine agent, as a state machine.                       *)
(*                                                                         *)
(* Python values are modelled as follows.  A dict is a TLA+ function whose *)
(* DOMAIN is the dict's key set, a list is a sequence, None is the record  *)
(* None.  A piece of text is a "token" (a tuple beginning with a tag) and  *)
(* a formatted string is a sequence of tokens, so that two strings are     *)
(* equal exactly when they were built from the same pieces in the same     *)
(* order.  A float confidence c is the integer c * ConfScale.              *)
(***************************************************************************)
EXTENDS Integers, Sequences, FiniteSets, TLC

VARIABLES
    store,      \* InMemoryStore, namespace ("users",): key -> Item
    extAgent,   \* MemoryExtractionAgent._agent is built
    agents,     \* PersonalityEngineAgent._agents: personality_type -> agent
    last,       \* the last finished call: its arguments and what it gave back
    written,    \* history: per user_id, the data of the last save not yet deleted
    mp,         \* the generate_personality_responses call in progress
    seen,       \* history: the last two prompts sent for the followed (persona, user_id)
    flows       \* the extract requests being served concurrently, each with its position

vars == <<store, extAgent, agents, last, written, mp, seen, flows>>

---------------------------------------------------------------------------
(* Bounds of the model *)

MaxItems == 1          \* items per list in an LLM output
MaxTranscript == 2     \* distinct transcripts
MaxPersonas == 2       \* length of a requested persona list
MaxContext == 4        \* items per list in a record whose context block is formatted
MaxFlows == 2          \* extract requests served concurrently

ConfScale == 10        \* confidence 0.7 is 7

---------------------------------------------------------------------------
(* Python values *)

None == [none |-> TRUE]

\* where a string may be None: the sentinel for None
NoText == << <<"(None)">> >>

\* the empty dict
EmptyDict == [k \in {} |-> None]

\* bool(d) of a dict-or-None value
Truthy(d) == d # None /\ DOMAIN d # {}

\* d.get(k, default)
DictGet(d, k, default) == IF k \in DOMAIN d THEN d[k] ELSE default

\* a or b, for strings
StrOr(a, b) == IF a # "" THEN a ELSE b

\* the first n elements of a list: s[:n]
Take(s, n) == SubSeq(s, 1, IF Len(s) < n THEN Len(s) ELSE n)

Range(s) == {s[i] : i \in DOMAIN s}

Users == {"default_user", "u1"}
Transcripts == 1..MaxTranscript

\* exception classes of utils/exceptions.py, and the others the code meets
NoErr == "ok"
ErrorKinds == {"MemoryExtractionError", "PersonalityGenerationError",
               "InvalidInputError", "StructuredOutputError", "StoreError"}

---------------------------------------------------------------------------
(* schemas/memory_schemas.py *)

FrequencyEnum == {"rare", "occasional", "frequent"}
ImportanceEnum == {"low", "medium", "high"}

\* Field(ge=0, le=1) of UserPreference.confidence
UserPreferenceValid(p) == p.confidence >= 0 /\ p.confidence <= ConfScale

\* frequency and importance are declared str: any string validates
EmotionalPatternValid(p) == TRUE
MemorableFactValid(f) == TRUE

\* MemoryExtractionResult(**raw) validates: summary is required, the lists
\* and user_id have defaults
MemoryExtractionResultValid(raw) ==
    /\ "summary" \in DOMAIN raw
    /\ \A p \in Range(DictGet(raw, "user_preferences", <<>>)) : UserPreferenceValid(p)
    /\ \A p \in Range(DictGet(raw, "emotional_patterns", <<>>)) : EmotionalPatternValid(p)
    /\ \A f \in Range(DictGet(raw, "memorable_facts", <<>>)) : MemorableFactValid(f)

\* the object MemoryExtractionResult(**raw), defaults filled in
MemoryExtractionResult(raw) ==
    [type |-> "MemoryExtractionResult",
     user_preferences |-> DictGet(raw, "user_preferences", <<>>),
     emotional_patterns |-> DictGet(raw, "emotional_patterns", <<>>),
     memorable_facts |-> DictGet(raw, "memorable_facts", <<>>),
     summary |-> raw.summary,
     user_id |-> DictGet(raw, "user_id", "default_user")]

\* BaseModel.model_dump(): the fields as a dict, without the class
model_dump(obj) == [k \in DOMAIN obj \ {"type"} |-> obj[k]]

---------------------------------------------------------------------------
(* What the LLM may answer to an extraction request *)

Pref(t, i, c) == [type |-> "UserPreference", preference |-> <<"pref", t, i>>,
                  category |-> <<"category", t, i>>, confidence |-> c]
Pat(t, i, f) == [type |-> "EmotionalPattern", pattern |-> <<"pattern", t, i>>,
                 trigger |-> <<"trigger", t, i>>, frequency |-> f]
Fact(t, i, m) == [type |-> "MemorableFact", fact |-> <<"fact", t, i>>,
                  fact_type |-> <<"fact_type", t, i>>, importance |-> m]

\* the arguments of a well-formed tool call for transcript t, n items per list
RawBase(t, n) ==
    [user_preferences |-> [i \in 1..n |-> Pref(t, i, 7)],
     emotional_patterns |-> [i \in 1..n |-> Pat(t, i, "frequent")],
     memorable_facts |-> [i \in 1..n |-> Fact(t, i, "high")],
     summary |-> <<"summary", t>>]

WithKey(d, k, v) == [x \in DOMAIN d \cup {k} |-> IF x = k THEN v ELSE d[x]]
WithoutKey(d, k) == [x \in DOMAIN d \ {k} |-> d[x]]

\* tool-call arguments the model produces when it behaves: nothing found,
\* or MaxItems findings of each kind
GoodRaw(t) == {RawBase(t, n) : n \in {0, MaxItems}}

\* tool-call arguments of a model that ignores its instructions
OddRaw(t) ==
    {[RawBase(t, MaxItems) EXCEPT !.user_preferences = [i \in 1..MaxItems |-> Pref(t, i, c)]]
        : c \in {0 - 1, ConfScale + 1}}
    \cup {[RawBase(t, MaxItems) EXCEPT !.emotional_patterns = [i \in 1..MaxItems |-> Pat(t, i, "always")]]}
    \cup {[RawBase(t, MaxItems) EXCEPT !.memorable_facts = [i \in 1..MaxItems |-> Fact(t, i, "critical")]]}
    \cup {WithKey(RawBase(t, MaxItems), "user_id", id) : id \in {"", "u1"}}
    \cup {WithoutKey(RawBase(t, MaxItems), "summary")}
    \cup {[summary |-> <<"summary", t>>]}


---------------------------------------------------------------------------
(* store/memory_store.py *)

\* InMemoryStore.put(namespace=("users",), key, value)
StorePut(st, key, value) ==
    [k \in DOMAIN st \cup {key} |->
        IF k = key THEN [namespace |-> <<"users">>, key |-> key, value |-> value]
        ELSE st[k]]

\* InMemoryStore.get(namespace=("users",), key): the Item or None
StoreGet(st, key) == IF key \in DOMAIN st THEN st[key] ELSE None

\* InMemoryStore.delete(namespace=("users",), key)
StoreDelete(st, key) == [k \in DOMAIN st \ {key} |-> st[k]]

\* save_user_memory with the key a constant instead of user_id
save_user_memory_one_key(st, user_id, memory_data, ok) ==
    IF ok THEN [err |-> NoErr, store |-> StorePut(st, "default_user", memory_data)]
    ELSE [err |-> "StoreError", store |-> st]

\* save_user_memory raising after the put went through
save_user_memory_put_then_raise(st, user_id, memory_data, ok) ==
    IF ok THEN [err |-> NoErr, store |-> StorePut(st, user_id, memory_data)]
    ELSE [err |-> "StoreError", store |-> StorePut(st, user_id, memory_data)]

\* save_user_memory extending the lists of the record already stored
save_user_memory_merge(st, user_id, memory_data, ok) ==
    IF ~ok THEN [err |-> "StoreError", store |-> st]
    ELSE IF user_id \notin DOMAIN st
    THEN [err |-> NoErr, store |-> StorePut(st, user_id, memory_data)]
    ELSE LET old == st[user_id].value
         IN  [err |-> NoErr,
              store |-> StorePut(st, user_id,
                  [memory_data EXCEPT
                      !.user_preferences = old.user_preferences \o @,
                      !.emotional_patterns = old.emotional_patterns \o @,
                      !.memorable_facts = old.memorable_facts \o @])]

\* MemoryStore.save_user_memory; ok is FALSE when the backing store raises
save_user_memory(st, user_id, memory_data, ok) ==
    IF ok THEN [err |-> NoErr, store |-> StorePut(st, user_id, memory_data)]
    ELSE [err |-> "StoreError", store |-> st]

\* MemoryStore.get_user_memory
get_user_memory(st, user_id, ok) ==
    IF ~ok THEN [err |-> "StoreError", value |-> None]
    ELSE LET result == StoreGet(st, user_id)
         IN  IF result # None
             THEN [err |-> NoErr, value |-> result.value]
             ELSE [err |-> NoErr, value |-> None]

\* delete_user_memory emptying the namespace
delete_user_memory_clears_namespace(st, user_id, ok) ==
    IF ok THEN [err |-> NoErr, store |-> [k \in {} |-> st[k]]]
    ELSE [err |-> "StoreError", store |-> st]

\* MemoryStore.delete_user_memory
delete_user_memory(st, user_id, ok) ==
    IF ok THEN [err |-> NoErr, store |-> StoreDelete(st, user_id)]
    ELSE [err |-> "StoreError", store |-> st]

\* InMemoryStore.search as list_user_memories calls it, search(namespace=("users",)):
\* search takes the prefix as its positional-only first parameter
\* namespace_prefix and has no parameter called namespace, so the call
\* raises TypeError before any item is read
StoreSearch(st) == [raised |-> "TypeError", items |-> EmptyDict]

\* MemoryStore.list_user_memories
list_user_memories(st, ok) ==
    LET found == StoreSearch(st)
    IN  IF ok /\ found.raised = NoErr
        THEN [err |-> NoErr, value |-> [k \in DOMAIN found.items |-> found.items[k].value]]
        ELSE [err |-> "StoreError", value |-> None]

---------------------------------------------------------------------------
(* agents/memory_extraction_agent.py *)

\* agent.invoke of the agent built with ToolStrategy(schema=MemoryExtractionResult,
\* handle_errors=True): the state it returns, or the exception it raises
ExtractionAgentInvoke(llm) ==
    CASE llm.kind = "raise" -> [raised |-> TRUE, result |-> None]
      [] llm.kind = "text" -> [raised |-> FALSE, result |-> [messages |-> <<"text">>]]
      [] llm.kind = "wrong_type" ->
            [raised |-> FALSE,
             result |-> [messages |-> <<"text">>, structured_response |-> [type |-> "str"]]]
      [] llm.kind = "output" ->
            [raised |-> FALSE,
             result |-> [messages |-> <<"text">>, output |-> MemoryExtractionResult(llm.args)]]
      [] llm.kind = "tool_call" ->
            IF MemoryExtractionResultValid(llm.args)
            THEN [raised |-> FALSE,
                  result |-> [messages |-> <<"tool">>,
                              structured_response |-> MemoryExtractionResult(llm.args)]]
            ELSE [raised |-> TRUE, result |-> None]

\* the memory_data dict extract_memories builds from the structured response
MemoryData(structured_response, user_id) ==
    [user_preferences |->
        [i \in DOMAIN structured_response.user_preferences |->
            model_dump(structured_response.user_preferences[i])],
     emotional_patterns |->
        [i \in DOMAIN structured_response.emotional_patterns |->
            model_dump(structured_response.emotional_patterns[i])],
     memorable_facts |->
        [i \in DOMAIN structured_response.memorable_facts |->
            model_dump(structured_response.memorable_facts[i])],
     summary |-> structured_response.summary,
     user_id |-> StrOr(structured_response.user_id, user_id)]

\* extract_memories without its last except clause: what was raised
\* underneath leaves the method as it is
ExtractionRaise_unwrapped(kind) == kind

\* the outcome of the except clauses of extract_memories for an exception
\* of class kind raised in its try block
ExtractionRaise(kind) ==
    IF kind \in {"StructuredOutputError", "MemoryExtractionError"} THEN kind
    ELSE "MemoryExtractionError"

\* MemoryExtractionAgent.extract_memories(messages, user_id), where the
\* scenario sc says what the collaborators do: sc.build (create_agent
\* succeeds), sc.llm (the LLM's answer), sc.save_ok (the store accepts)
extract_memories(st, built, user_id, sc) ==
    LET fail(kind) == [err |-> ExtractionRaise(kind), raised |-> kind,
                       result |-> None, save |-> None,
                       store |-> st, built |-> built \/ sc.build,
                       llm_calls |-> IF built \/ sc.build THEN 1 ELSE 0]
        inv == ExtractionAgentInvoke(sc.llm)
    IN  IF ~built /\ ~sc.build
        THEN [fail("MemoryExtractionError") EXCEPT !.built = FALSE]
        ELSE IF inv.raised THEN fail("Exception")
        ELSE IF "structured_response" \notin DOMAIN inv.result
        THEN IF "output" \in DOMAIN inv.result
             THEN fail("KeyError")
             ELSE fail("StructuredOutputError")
        ELSE LET structured_response == inv.result["structured_response"]
             IN  IF structured_response.type # "MemoryExtractionResult"
                 THEN fail("StructuredOutputError")
                 ELSE LET memory_data == MemoryData(structured_response, user_id)
                          saved == save_user_memory(st, user_id, memory_data, sc.save_ok)
                      IN  IF saved.err # NoErr
                          THEN [fail(saved.err) EXCEPT !.store = saved.store]
                          ELSE [err |-> NoErr, raised |-> NoErr, result |-> memory_data,
                                save |-> [user_id |-> user_id, memory_data |-> memory_data],
                                store |-> saved.store, built |-> TRUE,
                                llm_calls |-> 1]

---------------------------------------------------------------------------
(* agents/personality_engine_agent.py *)

Personas == {"mentor", "friend", "therapist"}

\* persona names a caller may pass: the three personas and an unknown one
PersonaNames == Personas \cup {"pirate"}

\* PersonalityEngineAgent.PERSONALITY_PROMPTS
PERSONALITY_PROMPTS == [p \in Personas |-> << <<"PERSONALITY_PROMPT", p>> >>]

\* PERSONALITY_PROMPTS.get(personality_type, PERSONALITY_PROMPTS["mentor"])
BasePrompt(personality_type) ==
    IF personality_type \in DOMAIN PERSONALITY_PROMPTS
    THEN PERSONALITY_PROMPTS[personality_type]
    ELSE PERSONALITY_PROMPTS["mentor"]

TopPreferences == 3
TopPatterns == 2
TopFacts == 2

\* sep.join(strings)
RECURSIVE Join(_, _)
Join(sep, strings) ==
    IF strings = <<>> THEN <<>>
    ELSE IF Len(strings) = 1 THEN strings[1]
    ELSE strings[1] \o sep \o Join(sep, Tail(strings))

\* item.get(key, ''), as a string
TextOf(item, key) == IF key \in DOMAIN item THEN <<item[key]>> ELSE <<>>

\* one labelled line of the context block: the label, the first n texts
\* joined by ", ", a newline; nothing for an empty or missing list
ContextLine(memory_data, list_key, text_key, label, n) ==
    LET items == DictGet(memory_data, list_key, <<>>)
        top == Take(items, n)
    IN  IF items = <<>> THEN <<>>
        ELSE << <<label>> >>
             \o Join(<< <<", ">> >>, [i \in DOMAIN top |-> TextOf(top[i], text_key)])
             \o << <<"\n">> >>

\* _format_memory_context without the [:3] and [:2] slices
format_memory_context_all_items(memory_data) ==
    << <<"IMPORTANT - User Context (use to personalize responses):\n">> >>
    \o ContextLine(memory_data, "user_preferences", "preference", "Preferences: ",
                   Len(DictGet(memory_data, "user_preferences", <<>>)))
    \o ContextLine(memory_data, "emotional_patterns", "pattern", "Emotional patterns: ",
                   Len(DictGet(memory_data, "emotional_patterns", <<>>)))
    \o ContextLine(memory_data, "memorable_facts", "fact", "Key facts: ",
                   Len(DictGet(memory_data, "memorable_facts", <<>>)))

\* PersonalityEngineAgent._format_memory_context
format_memory_context(memory_data) ==
    << <<"IMPORTANT - User Context (use to personalize responses):\n">> >>
    \o ContextLine(memory_data, "user_preferences", "preference", "Preferences: ", TopPreferences)
    \o ContextLine(memory_data, "emotional_patterns", "pattern", "Emotional patterns: ", TopPatterns)
    \o ContextLine(memory_data, "memorable_facts", "fact", "Key facts: ", TopFacts)

\* personality_system_prompt appending the context block whatever the store holds
personality_system_prompt_always_context(personality_type, st, user_id, store_ok) ==
    LET got == get_user_memory(st, user_id, store_ok)
    IN  IF got.err # NoErr THEN [err |-> got.err, prompt |-> NoText]
        ELSE [err |-> NoErr,
              prompt |-> BasePrompt(personality_type) \o << <<"\n\n">> >>
                         \o format_memory_context(IF got.value = None THEN EmptyDict
                                                   ELSE got.value)]

\* the dynamic_prompt middleware personality_system_prompt of the agent
\* built for personality_type, run for a request of user_id
personality_system_prompt(personality_type, st, user_id, store_ok) ==
    LET base_prompt == BasePrompt(personality_type)
        got == get_user_memory(st, user_id, store_ok)
    IN  IF got.err # NoErr THEN [err |-> got.err, prompt |-> NoText]
        ELSE IF Truthy(got.value)
        THEN [err |-> NoErr,
              prompt |-> base_prompt \o << <<"\n\n">> >> \o format_memory_context(got.value)]
        ELSE [err |-> NoErr, prompt |-> base_prompt]

\* the agent create_agent returns in _build_agent
PersonaAgent(personality_type) ==
    [system_prompt |-> BasePrompt(personality_type),
     middleware |-> personality_type]

\* what the LLM writes for a system prompt and a query
LLMReply(prompt, query) == << <<"reply to", query>> >> \o prompt

\* what can go wrong around one persona generation
PersonaFaults == {"none", "build", "store", "llm", "empty", "no_messages"}

\* agent.invoke answering under the system_prompt the agent was created with
PersonaAgentInvoke_static_prompt(agent, st, query, user_id, fault) ==
    IF fault = "llm"
    THEN [raised |-> "Exception", messages |-> <<>>, prompt |-> agent.system_prompt,
          llm_calls |-> 1, store_reads |-> 0]
    ELSE [raised |-> NoErr,
          messages |-> CASE fault = "no_messages" -> <<>>
                         [] fault = "empty" -> << [content |-> <<>>] >>
                         [] OTHER -> << [content |-> LLMReply(agent.system_prompt, query)] >>,
          prompt |-> agent.system_prompt, llm_calls |-> 1, store_reads |-> 0]

\* agent.invoke(messages=[HumanMessage(query)], context=PersonalityContext(user_id, ..))
PersonaAgentInvoke(agent, st, query, user_id, fault) ==
    LET sp == personality_system_prompt(agent.middleware, st, user_id, fault # "store")
    IN  IF sp.err # NoErr
        THEN [raised |-> sp.err, messages |-> <<>>, prompt |-> NoText,
              llm_calls |-> 0, store_reads |-> 1]
        ELSE IF fault = "llm"
        THEN [raised |-> "Exception", messages |-> <<>>, prompt |-> sp.prompt,
              llm_calls |-> 1, store_reads |-> 1]
        ELSE [raised |-> NoErr,
              messages |-> CASE fault = "no_messages" -> <<>>
                             [] fault = "empty" -> << [content |-> <<>>] >>
                             [] OTHER -> << [content |-> LLMReply(sp.prompt, query)] >>,
              prompt |-> sp.prompt, llm_calls |-> 1, store_reads |-> 1]

\* _get_tone_characteristics answering with the mentor's entry for every persona
get_tone_characteristics_of_mentor(personality_type) ==
    <<"patient", "educational", "encouraging", "experienced">>

\* PersonalityEngineAgent._get_tone_characteristics
get_tone_characteristics(personality_type) ==
    CASE personality_type = "mentor" -> <<"patient", "educational", "encouraging", "experienced">>
      [] personality_type = "friend" -> <<"witty", "supportive", "casual", "genuine">>
      [] personality_type = "therapist" -> <<"empathetic", "validating", "reflective", "non-judgmental">>
      [] OTHER -> <<>>

\* PersonalityEngineAgent._get_approach_description
get_approach_description(personality_type) ==
    CASE personality_type = "mentor" -> "Provides structured guidance with learning focus"
      [] personality_type = "friend" -> "Offers support with casual, relatable tone"
      [] personality_type = "therapist" -> "Uses active listening and emotional validation"
      [] OTHER -> "Unknown approach"

\* the except clauses of generate_response: PersonalityGenerationError
\* passes, every other exception is wrapped in one
GenerationRaise(kind) ==
    IF kind = "PersonalityGenerationError" THEN kind
    ELSE "PersonalityGenerationError"

\* PersonalityEngineAgent.generate_response(query, personality_type, user_id)
generate_response(ag, st, query, personality_type, user_id, fault) ==
    LET fail(kind, text, ag2, inv) ==
            [err |-> GenerationRaise(kind), error |-> text, result |-> None,
             agents |-> ag2, prompt |-> inv.prompt,
             llm_calls |-> inv.llm_calls, store_reads |-> inv.store_reads,
             cached |-> personality_type \in DOMAIN ag]
        nothing == [prompt |-> NoText, llm_calls |-> 0, store_reads |-> 0]
    IN  IF personality_type \notin DOMAIN PERSONALITY_PROMPTS
        THEN fail("ValueError",
                  <<"Response generation failed: ", "Unknown personality type">>,
                  ag, nothing)
        ELSE IF personality_type \notin DOMAIN ag /\ fault = "build"
        THEN fail("PersonalityGenerationError", <<"Agent creation failed: ">>, ag, nothing)
        ELSE
        LET ag2 == IF personality_type \in DOMAIN ag THEN ag
                   ELSE WithKey(ag, personality_type, PersonaAgent(personality_type))
            inv == PersonaAgentInvoke(ag2[personality_type], st, query, user_id, fault)
            response_content ==
                IF inv.messages # <<>> THEN inv.messages[Len(inv.messages)].content
                ELSE <<>>
        IN  IF inv.raised # NoErr
            THEN fail(inv.raised, <<"Response generation failed: ", inv.raised>>, ag2, inv)
            ELSE IF response_content = <<>>
            THEN fail("StructuredOutputError",
                      <<"Response generation failed: ", "Agent did not return response content">>,
                      ag2, inv)
            ELSE [err |-> NoErr, error |-> <<>>,
                  result |-> [personality_type |-> personality_type,
                              response |-> response_content,
                              tone_characteristics |-> get_tone_characteristics(personality_type),
                              approach |-> get_approach_description(personality_type)],
                  agents |-> ag2, prompt |-> inv.prompt,
                  llm_calls |-> inv.llm_calls, store_reads |-> inv.store_reads,
                  cached |-> personality_type \in DOMAIN ag]

\* PersonalityEngineAgent.generate_generic_response(query)
GenericPrompt(query) == << <<"You are a neutral, professional assistant. ">>, <<"User query: ", query>> >>

GenericFaults == {"none", "llm", "empty"}

\* generate_generic_response without the check of the content
generate_generic_response_unchecked(query, fault) ==
    LET prompt == GenericPrompt(query)
        content == IF fault = "empty" THEN <<>> ELSE LLMReply(prompt, query)
    IN  IF fault = "llm"
        THEN [err |-> "PersonalityGenerationError", result |-> NoText,
              prompt |-> prompt, llm_calls |-> 1, store_reads |-> 0]
        ELSE [err |-> NoErr, result |-> content,
              prompt |-> prompt, llm_calls |-> 1, store_reads |-> 0]

generate_generic_response(query, fault) ==
    LET prompt == GenericPrompt(query)
        content == IF fault = "empty" THEN <<>> ELSE LLMReply(prompt, query)
    IN  IF fault = "llm" \/ content = <<>>
        THEN [err |-> "PersonalityGenerationError", result |-> NoText,
              prompt |-> prompt, llm_calls |-> 1, store_reads |-> 0]
        ELSE [err |-> NoErr, result |-> content,
              prompt |-> prompt, llm_calls |-> 1, store_reads |-> 0]

---------------------------------------------------------------------------
(* The state machine *)

Idle == [pc |-> "idle"]

\* no (persona, user_id) pair is followed
NotTracking == [personality_type |-> "", user_id |-> "", prev |-> NoText, cur |-> NoText]

\* the history of the prompts sent for the followed pair, after a
\* generate_response call that sent prompt
Track(s, personality_type, user_id, prompt) ==
    IF personality_type = s.personality_type /\ user_id = s.user_id /\ prompt # NoText
    THEN [s EXCEPT !.prev = s.cur, !.cur = prompt]
    ELSE s

\* the transcript a stored record was extracted from (0: no record)
TranscriptOf(memory_data) == IF memory_data = None THEN 0 ELSE memory_data.summary[2]

\* the requests the server may be serving at once
FlowIds == 1..MaxFlows

\* a request that has not arrived
FlowIdle == [pc |-> "idle", user_id |-> "", transcript |-> 0, memory_data |-> None,
             status |-> 0, saved_at |-> 0]
NoFlows == [f \in FlowIds |-> FlowIdle]

Init ==
    /\ store = EmptyDict
    /\ extAgent = FALSE
    /\ agents = EmptyDict
    /\ last = [op |-> "none"]
    /\ written = [u \in Users |-> None]
    /\ mp = Idle
    /\ seen = NotTracking
    /\ flows = NoFlows

\* the scenarios of one extraction that differ in what the code does: the
\* agent is built once, the store is reached by a valid tool call only, and
\* a save that fails fails whatever the record
ExtractionScenarios(t, raws) ==
    {[build |-> FALSE, llm |-> [kind |-> "raise"], save_ok |-> TRUE]}
    \cup {[build |-> TRUE, llm |-> a, save_ok |-> TRUE] :
            a \in {[kind |-> "raise"], [kind |-> "text"], [kind |-> "wrong_type"],
                   [kind |-> "output", args |-> RawBase(t, 0)]}}
    \cup {[build |-> TRUE, llm |-> [kind |-> "tool_call", args |-> raw], save_ok |-> TRUE] :
            raw \in raws}
    \cup {[build |-> TRUE, llm |-> [kind |-> "tool_call", args |-> RawBase(t, MaxItems)],
           save_ok |-> FALSE]}

\* one call of MemoryExtractionAgent.extract_memories for transcript t
ExtractMemories(user_id, t, sc) ==
    /\ mp = Idle
    /\ sc.build \/ ~extAgent
    /\ \E r \in {extract_memories(store, extAgent, user_id, sc)} :
           /\ store' = r.store
           /\ extAgent' = r.built
           /\ written' = IF r.save # None
                         THEN [written EXCEPT ![r.save.user_id] = r.save.memory_data]
                         ELSE written
           /\ last' = [op |-> "extract_memories", user_id |-> user_id, transcript |-> t,
                       answer |-> sc.llm.kind, err |-> r.err, raised |-> r.raised, result |-> r.result,
                       llm_calls |-> r.llm_calls,
                       prior |-> TranscriptOf(get_user_memory(store, user_id, TRUE).value)]
    /\ UNCHANGED <<agents, mp, seen, flows>>

\* one call of MemoryStore.get_user_memory
GetUserMemory(user_id, ok) ==
    /\ mp = Idle
    /\ \E r \in {get_user_memory(store, user_id, ok)} :
           last' = [op |-> "get_user_memory", user_id |-> user_id, store_ok |-> ok,
                    err |-> r.err, result |-> r.value]
    /\ UNCHANGED <<store, extAgent, agents, written, mp, seen, flows>>

\* one call of MemoryStore.delete_user_memory
DeleteUserMemory(user_id, ok) ==
    /\ mp = Idle
    /\ \E r \in {delete_user_memory(store, user_id, ok)} :
           /\ store' = r.store
           /\ written' = IF r.err = NoErr THEN [written EXCEPT ![user_id] = None]
                         ELSE written
           /\ last' = [op |-> "delete_user_memory", user_id |-> user_id, store_ok |-> ok,
                       err |-> r.err, had |-> user_id \in DOMAIN store]
    /\ UNCHANGED <<extAgent, agents, mp, seen, flows>>

\* one call of MemoryStore.list_user_memories
ListUserMemories(ok) ==
    /\ mp = Idle
    /\ \E r \in {list_user_memories(store, ok)} :
           last' = [op |-> "list_user_memories", store_ok |-> ok,
                    err |-> r.err, result |-> r.value]
    /\ UNCHANGED <<store, extAgent, agents, written, mp, seen, flows>>

\* generate_response noting in the user's record that it was used
GenerateResponse_marks_record(query, personality_type, user_id, fault) ==
    /\ mp = Idle
    /\ fault = "build" => personality_type \in Personas \ DOMAIN agents
    /\ personality_type \notin Personas => fault = "none"
    /\ \E r \in {generate_response(agents, store, query, personality_type, user_id, fault)} :
           /\ agents' = r.agents
           /\ last' = [op |-> "generate_response", query |-> query,
                       personality_type |-> personality_type, user_id |-> user_id,
                       fault |-> fault, err |-> r.err, error |-> r.error,
                       result |-> r.result, prompt |-> r.prompt,
                       llm_calls |-> r.llm_calls, store_reads |-> r.store_reads,
                       cached |-> r.cached]
           /\ seen' = Track(seen, personality_type, user_id, r.prompt)
           /\ store' = IF r.err = NoErr /\ user_id \in DOMAIN store
                       THEN StorePut(store, user_id,
                                     [store[user_id].value EXCEPT !.summary = <<"summary", 0>>])
                       ELSE store
    /\ UNCHANGED <<extAgent, written, mp, flows>>

\* one call of PersonalityEngineAgent.generate_response
GenerateResponse(query, personality_type, user_id, fault) ==
    /\ mp = Idle
    /\ fault = "build" => personality_type \in Personas \ DOMAIN agents
    /\ personality_type \notin Personas => fault = "none"
    /\ \E r \in {generate_response(agents, store, query, personality_type, user_id, fault)} :
           /\ agents' = r.agents
           /\ last' = [op |-> "generate_response", query |-> query,
                       personality_type |-> personality_type, user_id |-> user_id,
                       fault |-> fault, err |-> r.err, error |-> r.error,
                       result |-> r.result, prompt |-> r.prompt,
                       llm_calls |-> r.llm_calls, store_reads |-> r.store_reads,
                       cached |-> r.cached]
           /\ seen' = Track(seen, personality_type, user_id, r.prompt)
    /\ UNCHANGED <<store, extAgent, written, mp, flows>>

\* one call of PersonalityEngineAgent.generate_generic_response
GenerateGenericResponse(query, fault) ==
    /\ mp = Idle
    /\ \E r \in {generate_generic_response(query, fault)} :
           last' = [op |-> "generate_generic_response", query |-> query, fault |-> fault,
                    err |-> r.err, result |-> r.result, prompt |-> r.prompt,
                    llm_calls |-> r.llm_calls, store_reads |-> r.store_reads]
    /\ UNCHANGED <<store, extAgent, agents, written, mp, seen, flows>>


\* the personality_types argument of generate_personality_responses: None or a list
NoTypes == [given |-> FALSE]
Types(list) == [given |-> TRUE, list |-> list]

\* list(PERSONALITY_PROMPTS.keys())
AllPersonas == <<"mentor", "friend", "therapist">>

\* the slot of a persona whose generation raised e: {"error": str(e), ...}
ErrorDescriptor(personality_type, text) ==
    [error |-> text, personality_type |-> personality_type]

\* the loop body without its try/except: the exception leaves the loop
multi_step_no_except(call, r, fault) ==
    LET personality_type == call.personality_types[call.i]
    IN  IF r.err # NoErr
        THEN [call EXCEPT !.pc = "raised",
                          !.faults = WithKey(call.faults, personality_type, fault),
                          !.llm_calls = call.llm_calls + r.llm_calls]
        ELSE [call EXCEPT
                !.i = call.i + 1,
                !.responses = WithKey(call.responses, personality_type, r.result),
                !.faults = WithKey(call.faults, personality_type, fault),
                !.llm_calls = call.llm_calls + r.llm_calls]

\* the loop body leaving no slot for a persona whose generation failed
multi_step_skips_failed(call, r, fault) ==
    LET personality_type == call.personality_types[call.i]
    IN  [call EXCEPT
            !.i = call.i + 1,
            !.responses = IF r.err = NoErr
                          THEN WithKey(call.responses, personality_type, r.result)
                          ELSE call.responses,
            !.faults = WithKey(call.faults, personality_type, fault),
            !.llm_calls = call.llm_calls + r.llm_calls]

\* one iteration of the loop of generate_personality_responses: call is the
\* state of the call, r what generate_response did under fault
multi_step(call, r, fault) ==
    LET personality_type == call.personality_types[call.i]
    IN  [call EXCEPT
            !.i = call.i + 1,
            !.responses =
                WithKey(call.responses, personality_type,
                        IF r.err = NoErr THEN r.result
                        ELSE ErrorDescriptor(personality_type, r.error)),
            !.faults = WithKey(call.faults, personality_type, fault),
            !.llm_calls = call.llm_calls + r.llm_calls]

\* generate_personality_responses is called
MultiStart(query, personality_types, user_id) ==
    /\ mp = Idle
    /\ mp' = [pc |-> "loop", query |-> query, user_id |-> user_id,
              requested |-> personality_types,
              personality_types |-> IF personality_types.given
                                    THEN personality_types.list ELSE AllPersonas,
              i |-> 1, responses |-> EmptyDict, faults |-> EmptyDict, llm_calls |-> 0]
    /\ last' = [op |-> "none"]
    /\ UNCHANGED <<store, extAgent, agents, written, seen, flows>>

\* the body of its loop, for the next personality_type
MultiStep(fault) ==
    /\ mp.pc = "loop"
    /\ mp.i <= Len(mp.personality_types)
    /\ fault = "build" => mp.personality_types[mp.i] \in Personas \ DOMAIN agents
    /\ mp.personality_types[mp.i] \notin Personas => fault = "none"
    /\ \E r \in {generate_response(agents, store, mp.query, mp.personality_types[mp.i],
                                    mp.user_id, fault)} :
           /\ agents' = r.agents
           /\ mp' = multi_step(mp, r, fault)
    /\ UNCHANGED <<store, extAgent, last, written, seen, flows>>

\* it returns the responses, or an exception left the loop
MultiReturn ==
    /\ mp.pc # "idle"
    /\ mp.pc = "loop" => mp.i > Len(mp.personality_types)
    /\ last' = [op |-> "generate_personality_responses", query |-> mp.query,
                user_id |-> mp.user_id, requested |-> mp.requested,
                personality_types |-> mp.personality_types,
                err |-> IF mp.pc = "loop" THEN NoErr ELSE "PersonalityGenerationError",
                result |-> mp.responses, faults |-> mp.faults, llm_calls |-> mp.llm_calls]
    /\ mp' = Idle
    /\ UNCHANGED <<store, extAgent, agents, written, seen, flows>>

---------------------------------------------------------------------------
(* routes/memory.py and routes/personality.py *)

\* the queries a caller may send: empty, whitespace only, and two questions
Queries == {"", " ", "q1", "q2"}

\* query.strip()
strip(query) == IF query = " " THEN "" ELSE query

\* the messages of transcript t; transcript 0 is the empty list
Messages(t) == IF t = 0 THEN <<>>
               ELSE << [role |-> "user", content |-> <<"content", t>>] >>

\* the except clauses of a route: a ValueError is answered 400, a
\* PersonalityEngineException and any other exception 500
RouteStatus(kind) == IF kind = "ValueError" THEN 400 ELSE 500

\* the extract route without its check of the list
route_extract_memories_unchecked(st, built, request, sc) ==
    LET r == extract_memories(st, built, request.user_id, sc)
    IN  IF r.err # NoErr
        THEN [status |-> RouteStatus(r.err), body |-> None, raised |-> r.err,
              save |-> r.save, store |-> r.store, built |-> r.built,
              llm_calls |-> r.llm_calls]
        ELSE [status |-> 200,
              body |-> [status |-> "success", data |-> r.result,
                        messages_analyzed |-> Len(request.messages)],
              raised |-> NoErr, save |-> r.save, store |-> r.store,
              built |-> r.built, llm_calls |-> r.llm_calls]

\* the extract route answering with the validated lists and summary only,
\* without the user_id entry that the saved record carries
route_extract_memories_without_user_id(st, built, request, sc) ==
    LET r == route_extract_memories_unchecked(st, built, request, sc)
    IN  IF request.messages = <<>>
        THEN [status |-> RouteStatus("ValueError"), body |-> None, raised |-> "ValueError",
              save |-> None, store |-> st, built |-> built, llm_calls |-> 0]
        ELSE IF r.status # 200 THEN r
        ELSE [r EXCEPT !.body.data =
                 [k \in DOMAIN r.body.data \ {"user_id"} |-> r.body.data[k]]]

\* POST /api/v1/memory/extract
route_extract_memories(st, built, request, sc) ==
    IF request.messages = <<>>
    THEN [status |-> RouteStatus("ValueError"), body |-> None, raised |-> "ValueError",
          save |-> None, store |-> st, built |-> built, llm_calls |-> 0]
    ELSE LET r == extract_memories(st, built, request.user_id, sc)
         IN  IF r.err # NoErr
             THEN [status |-> RouteStatus(r.err), body |-> None, raised |-> r.err,
                   save |-> r.save, store |-> r.store, built |-> r.built,
                   llm_calls |-> r.llm_calls]
             ELSE [status |-> 200,
                   body |-> [status |-> "success", data |-> r.result,
                             messages_analyzed |-> Len(request.messages)],
                   raised |-> NoErr, save |-> r.save, store |-> r.store,
                   built |-> r.built, llm_calls |-> r.llm_calls]

\* the fetch route answering a missing record with an empty one
route_get_user_memories_empty_for_missing(st, user_id, ok) ==
    LET got == get_user_memory(st, user_id, ok)
    IN  IF got.err # NoErr THEN [status |-> 500, body |-> None]
        ELSE [status |-> 200, body |-> [user_id |-> user_id, memories |-> got.value]]

\* GET /api/v1/memory/user/{user_id}
route_get_user_memories(st, user_id, ok) ==
    LET got == get_user_memory(st, user_id, ok)
    IN  IF got.err # NoErr THEN [status |-> 500, body |-> None]
        ELSE IF got.value = None THEN [status |-> 404, body |-> None]
        ELSE [status |-> 200, body |-> [user_id |-> user_id, memories |-> got.value]]

\* the validation of the transform route looking at the first name only
transform_validate_first_only(request) ==
    LET personality_types == IF request.personality_types = <<>> THEN AllPersonas
                             ELSE request.personality_types
    IN  IF request.query = "" \/ strip(request.query) = ""
        THEN [err |-> "ValueError", personality_types |-> <<>>]
        ELSE IF personality_types[1] \notin Personas
        THEN [err |-> "ValueError", personality_types |-> <<>>]
        ELSE [err |-> NoErr, personality_types |-> personality_types]

\* the validation of the transform route: the query, the default of the
\* persona list, the persona names
transform_validate(request) ==
    LET personality_types == IF request.personality_types = <<>> THEN AllPersonas
                             ELSE request.personality_types
    IN  IF request.query = "" \/ strip(request.query) = ""
        THEN [err |-> "ValueError", personality_types |-> <<>>]
        ELSE IF Range(personality_types) \ Personas # {}
        THEN [err |-> "ValueError", personality_types |-> <<>>]
        ELSE [err |-> NoErr, personality_types |-> personality_types]

\* the analysis counting every slot, error descriptors included
generate_analysis_counts_all(query, responses) ==
    [query |-> query, success_count |-> Cardinality(DOMAIN responses),
     approaches |-> SelectSeq(AllPersonas, LAMBDA p : p \in DOMAIN responses)]

\* _generate_analysis: the number of slots without "error" and, in the
\* fixed order, the personas among them
generate_analysis(query, responses) ==
    LET good == {p \in DOMAIN responses : "error" \notin DOMAIN responses[p]}
    IN  [query |-> query, success_count |-> Cardinality(good),
         approaches |-> SelectSeq(AllPersonas, LAMBDA p : p \in good)]

\* POST /api/v1/personality/generic
route_get_generic_response(request, fault) ==
    IF request.query = "" \/ strip(request.query) = ""
    THEN [status |-> RouteStatus("ValueError"), body |-> None, prompt |-> NoText,
          llm_calls |-> 0, store_reads |-> 0]
    ELSE LET r == generate_generic_response(request.query, fault)
         IN  IF r.err # NoErr
             THEN [status |-> RouteStatus(r.err), body |-> None, prompt |-> r.prompt,
                   llm_calls |-> r.llm_calls, store_reads |-> r.store_reads]
             ELSE [status |-> 200,
                   body |-> [status |-> "success", query |-> request.query,
                             generic_response |-> r.result],
                   prompt |-> r.prompt, llm_calls |-> r.llm_calls,
                   store_reads |-> r.store_reads]

\* one request to the extract route, for transcript t
ExtractRoute(user_id, t, sc) ==
    /\ mp = Idle
    /\ sc.build \/ ~extAgent
    /\ \E r \in {route_extract_memories(store, extAgent,
                    [messages |-> Messages(t), user_id |-> user_id], sc)} :
           /\ store' = r.store
           /\ extAgent' = r.built
           /\ written' = IF r.save # None
                         THEN [written EXCEPT ![r.save.user_id] = r.save.memory_data]
                         ELSE written
           /\ last' = [op |-> "route_extract_memories", user_id |-> user_id,
                       transcript |-> t, status |-> r.status, body |-> r.body,
                       raised |-> r.raised, llm_calls |-> r.llm_calls,
                       save_ok |-> sc.save_ok,
                       prior |-> TranscriptOf(get_user_memory(store, user_id, TRUE).value)]
    /\ UNCHANGED <<agents, mp, seen, flows>>

\* one request to the fetch route
FetchRoute(user_id, ok) ==
    /\ mp = Idle
    /\ \E r \in {route_get_user_memories(store, user_id, ok)} :
           last' = [op |-> "route_get_user_memories", user_id |-> user_id,
                    store_ok |-> ok, status |-> r.status, body |-> r.body]
    /\ UNCHANGED <<store, extAgent, agents, written, mp, seen, flows>>

\* a request reaches the transform route: it is refused, or the route
\* calls generate_personality_responses
TransformStart(request) ==
    /\ mp = Idle
    /\ \E v \in {transform_validate(request)} :
          IF v.err # NoErr
          THEN /\ last' = [op |-> "transform_with_personality", request |-> request,
                           status |-> RouteStatus(v.err), responses |-> None,
                           analysis |-> None, faults |-> EmptyDict, llm_calls |-> 0]
               /\ mp' = mp
          ELSE /\ last' = [op |-> "transform_with_personality", request |-> request,
                           status |-> 0, responses |-> None,
                           analysis |-> None, faults |-> EmptyDict, llm_calls |-> 0]
               /\ mp' = [pc |-> "loop", query |-> request.query,
                         user_id |-> request.user_id,
                         personality_types |-> v.personality_types,
                         i |-> 1, responses |-> EmptyDict, faults |-> EmptyDict,
                         llm_calls |-> 0]
    /\ UNCHANGED <<store, extAgent, agents, written, seen, flows>>

\* the route answering with a server error when no persona succeeded
TransformReturn_fails_when_all_fail ==
    /\ mp.pc = "loop"
    /\ mp.i > Len(mp.personality_types)
    /\ last.op = "transform_with_personality"
    /\ last.status = 0
    /\ last' = IF \E p \in DOMAIN mp.responses : "error" \notin DOMAIN mp.responses[p]
               THEN [last EXCEPT !.status = 200, !.responses = mp.responses,
                                 !.analysis = generate_analysis(mp.query, mp.responses),
                                 !.faults = mp.faults, !.llm_calls = mp.llm_calls]
               ELSE [last EXCEPT !.status = 500, !.faults = mp.faults,
                                 !.llm_calls = mp.llm_calls]
    /\ mp' = Idle
    /\ UNCHANGED <<store, extAgent, agents, written, seen, flows>>

\* generate_personality_responses returned: the route builds the analysis
\* and answers
TransformReturn ==
    /\ mp.pc = "loop"
    /\ mp.i > Len(mp.personality_types)
    /\ last.op = "transform_with_personality"
    /\ last.status = 0
    /\ last' = [last EXCEPT !.status = 200, !.responses = mp.responses,
                            !.analysis = generate_analysis(mp.query, mp.responses),
                            !.faults = mp.faults, !.llm_calls = mp.llm_calls]
    /\ mp' = Idle
    /\ UNCHANGED <<store, extAgent, agents, written, seen, flows>>

\* the generic route answering from the caller's stored memory
GenericRoute_personalized(request, fault) ==
    /\ mp = Idle
    /\ \E r \in {route_get_generic_response(request, fault)} :
       \E m \in {get_user_memory(store, request.user_id, TRUE).value} :
           last' = [op |-> "route_get_generic_response", request |-> request,
                    fault |-> fault, status |-> r.status, body |-> r.body,
                    prompt |-> IF r.prompt # NoText /\ Truthy(m)
                               THEN r.prompt \o format_memory_context(m)
                               ELSE r.prompt,
                    llm_calls |-> r.llm_calls,
                    store_reads |-> IF r.prompt # NoText THEN 1 ELSE 0]
    /\ UNCHANGED <<store, extAgent, agents, written, mp, seen, flows>>

\* one request to the generic route
GenericRoute(request, fault) ==
    /\ mp = Idle
    /\ \E r \in {route_get_generic_response(request, fault)} :
           last' = [op |-> "route_get_generic_response", request |-> request,
                    fault |-> fault, status |-> r.status, body |-> r.body,
                    prompt |-> r.prompt, llm_calls |-> r.llm_calls,
                    store_reads |-> r.store_reads]
    /\ UNCHANGED <<store, extAgent, agents, written, mp, seen, flows>>

---------------------------------------------------------------------------
(* Extract requests served at the same time *)

\* the saves that have been executed
SavesDone == Cardinality({g \in FlowIds : flows[g].saved_at > 0})

\* request f arrives at the extract route: the route refuses an empty
\* list; otherwise extract_memories starts and has its agent
FlowStart(f, user_id, t) ==
    /\ mp = Idle
    /\ flows[f].pc = "idle"
    /\ IF Messages(t) = <<>>
       THEN /\ flows' = [flows EXCEPT ![f] = [FlowIdle EXCEPT !.pc = "done",
                            !.user_id = user_id, !.status = RouteStatus("ValueError")]]
            /\ extAgent' = extAgent
       ELSE /\ flows' = [flows EXCEPT ![f] = [FlowIdle EXCEPT !.pc = "invoke",
                            !.user_id = user_id, !.transcript = t]]
            /\ extAgent' = TRUE
    /\ UNCHANGED <<store, agents, last, written, mp, seen>>

\* the agent of request f returns: extract_memories has its memory_data, or fails
FlowInvoke(f, sc) ==
    /\ flows[f].pc = "invoke"
    /\ \E r \in {extract_memories(store, TRUE, flows[f].user_id, sc)} :
          flows' = [flows EXCEPT ![f] =
                        IF r.err # NoErr
                        THEN [@ EXCEPT !.pc = "done", !.status = RouteStatus(r.err)]
                        ELSE [@ EXCEPT !.pc = "save", !.memory_data = r.result]]
    /\ UNCHANGED <<store, extAgent, agents, last, written, mp, seen>>

\* the save of request f keeping the record the user_id already has
FlowSave_keeps_first(f, ok) ==
    /\ flows[f].pc = "save"
    /\ \E r \in {IF flows[f].user_id \in DOMAIN store
                 THEN [err |-> IF ok THEN NoErr ELSE "StoreError", store |-> store]
                 ELSE save_user_memory(store, flows[f].user_id, flows[f].memory_data, ok)} :
          /\ store' = r.store
          /\ written' = IF r.err = NoErr
                        THEN [written EXCEPT ![flows[f].user_id] = flows[f].memory_data]
                        ELSE written
          /\ flows' = [flows EXCEPT ![f] =
                        IF r.err # NoErr
                        THEN [@ EXCEPT !.pc = "done",
                                       !.status = RouteStatus(ExtractionRaise(r.err))]
                        ELSE [@ EXCEPT !.pc = "done", !.status = 200,
                                       !.saved_at = SavesDone + 1]]
    /\ UNCHANGED <<extAgent, agents, last, mp, seen>>

\* the save of request f writing the lists of its memory_data into the
\* record the user_id already has, whose summary and user_id stay
FlowSave_field_by_field(f, ok) ==
    /\ flows[f].pc = "save"
    /\ \E r \in {save_user_memory(store, flows[f].user_id,
                    IF flows[f].user_id \in DOMAIN store
                    THEN [flows[f].memory_data EXCEPT
                            !.summary = get_user_memory(store, flows[f].user_id, TRUE).value.summary]
                    ELSE flows[f].memory_data, ok)} :
          /\ store' = r.store
          /\ written' = IF r.err = NoErr
                        THEN [written EXCEPT ![flows[f].user_id] = flows[f].memory_data]
                        ELSE written
          /\ flows' = [flows EXCEPT ![f] =
                        IF r.err # NoErr
                        THEN [@ EXCEPT !.pc = "done",
                                       !.status = RouteStatus(ExtractionRaise(r.err))]
                        ELSE [@ EXCEPT !.pc = "done", !.status = 200,
                                       !.saved_at = SavesDone + 1]]
    /\ UNCHANGED <<extAgent, agents, last, mp, seen>>

\* request f saves its memory_data and the route answers
FlowSave(f, ok) ==
    /\ flows[f].pc = "save"
    /\ \E r \in {save_user_memory(store, flows[f].user_id, flows[f].memory_data, ok)} :
          /\ store' = r.store
          /\ written' = IF r.err = NoErr
                        THEN [written EXCEPT ![flows[f].user_id] = flows[f].memory_data]
                        ELSE written
          /\ flows' = [flows EXCEPT ![f] =
                        IF r.err # NoErr
                        THEN [@ EXCEPT !.pc = "done",
                                       !.status = RouteStatus(ExtractionRaise(r.err))]
                        ELSE [@ EXCEPT !.pc = "done", !.status = 200,
                                       !.saved_at = SavesDone + 1]]
    /\ UNCHANGED <<extAgent, agents, last, mp, seen>>

---------------------------------------------------------------------------
(* Specifications *)

PersonaLists == UNION {[1..n -> PersonaNames] : n \in 0..MaxPersonas}

\* the extractions the specifications draw from: a transcript and what the
\* collaborators do with it
Extractions ==
    UNION {{[transcript |-> t, sc |-> sc] : sc \in ExtractionScenarios(t, GoodRaw(t))} :
            t \in Transcripts}

\* the service: every call of the two agents and of the store, with an LLM
\* that answers extraction requests with well-formed tool calls or not at all
Next ==
    \/ \E u \in Users, x \in Extractions : ExtractMemories(u, x.transcript, x.sc)
    \/ \E u \in Users, ok \in BOOLEAN : GetUserMemory(u, ok)
    \/ \E u \in Users, ok \in BOOLEAN : DeleteUserMemory(u, ok)
    \/ \E ok \in BOOLEAN : ListUserMemories(ok)
    \/ \E p \in PersonaNames, u \in Users, f \in PersonaFaults :
            GenerateResponse("q1", p, u, f)
    \/ \E f \in GenericFaults : GenerateGenericResponse("q1", f)

Spec == Init /\ [][Next]_vars

\* the same with the tool calls whose arguments are unusual or invalid
OddExtractions ==
    UNION {{[transcript |-> t, sc |-> sc] :
                sc \in ExtractionScenarios(t, GoodRaw(t) \cup OddRaw(t))} :
            t \in Transcripts}

\* the memory side, with an LLM that may also ignore its instructions
NextExtract ==
    \/ \E u \in Users, x \in OddExtractions : ExtractMemories(u, x.transcript, x.sc)
    \/ \E u \in Users, ok \in BOOLEAN : GetUserMemory(u, ok)
    \/ \E u \in Users, ok \in BOOLEAN : DeleteUserMemory(u, ok)
    \/ \E ok \in BOOLEAN : ListUserMemories(ok)

SpecExtract == Init /\ [][NextExtract]_vars

\* an extraction that succeeds with a full record
FullExtraction(t) ==
    [build |-> TRUE, llm |-> [kind |-> "tool_call", args |-> RawBase(t, MaxItems)],
     save_ok |-> TRUE]

\* the successful extractions, by transcript, the empty one included
FullExtractions ==
    {[transcript |-> t, sc |-> FullExtraction(t)] : t \in 0..MaxTranscript}

\* the personality_types arguments: None and the lists
TypesArguments == {NoTypes} \cup {Types(l) : l \in PersonaLists}

\* multi-persona generation for one user whose record comes and goes
NextMulti ==
    \/ \E types \in TypesArguments : MultiStart("q1", types, "u1")
    \/ \E f \in PersonaFaults : MultiStep(f)
    \/ MultiReturn
    \/ \E x \in {y \in FullExtractions : y.transcript = 1} :
            ExtractMemories("u1", x.transcript, x.sc)
    \/ DeleteUserMemory("u1", TRUE)

SpecMulti == Init /\ [][NextMulti]_vars

\* repeated generations for one (persona, user_id) pair, followed in seen,
\* while that user's record is saved, replaced and deleted
InitPrompt ==
    /\ store = EmptyDict
    /\ extAgent = FALSE
    /\ agents = EmptyDict
    /\ last = [op |-> "none"]
    /\ written = [u \in Users |-> None]
    /\ mp = Idle
    /\ \E p \in Personas, u \in Users :
            seen = [NotTracking EXCEPT !.personality_type = p, !.user_id = u]
    /\ flows = NoFlows

NextPrompt ==
    \/ \E f \in PersonaFaults : GenerateResponse("q1", seen.personality_type, seen.user_id, f)
    \/ \E x \in {y \in FullExtractions : y.transcript \in Transcripts} :
            ExtractMemories(seen.user_id, x.transcript, x.sc)
    \/ DeleteUserMemory(seen.user_id, TRUE)

SpecPrompt == InitPrompt /\ [][NextPrompt]_vars

\* the requests a caller may send to the transform route
TransformRequests ==
    [query : {"", " ", "q1"}, personality_types : PersonaLists, user_id : {"u1"}]

\* what goes wrong around a persona generation of the transform route
TransformFaults == {"none", "store", "llm"}

\* an extraction whose save the store refuses
RefusedSave(t) == [FullExtraction(t) EXCEPT !.save_ok = FALSE]

\* the requests to the generic route
GenericRequests == [user_id : Users, query : Queries]

\* extractions for the first two transcripts, saved or refused by the store
RespondExtractions ==
    UNION {{[transcript |-> t, sc |-> sc] : sc \in {FullExtraction(t), RefusedSave(t)}} :
            t \in 0..1}

\* the response side through its routes, for a user whose record comes and goes
NextRespond ==
    \/ \E request \in TransformRequests : TransformStart(request)
    \/ \E f \in TransformFaults : MultiStep(f)
    \/ TransformReturn
    \/ \E request \in GenericRequests, f \in GenericFaults : GenericRoute(request, f)
    \/ \E q \in Queries \ {"", " "}, p \in PersonaNames, u \in Users, f \in TransformFaults :
            GenerateResponse(q, p, u, f)
    \/ \E x \in RespondExtractions : ExtractRoute("u1", x.transcript, x.sc)
    \/ \E ok \in BOOLEAN : FetchRoute("u1", ok)
    \/ DeleteUserMemory("u1", TRUE)

SpecRespond == Init /\ [][NextRespond]_vars

\* the requests to the extract route: the empty list of messages, and
\* every extraction
ApiExtractions == {x \in FullExtractions : x.transcript = 0} \cup Extractions

\* the memory side through its routes
NextMemoryApi ==
    \/ \E u \in Users, x \in ApiExtractions : ExtractRoute(u, x.transcript, x.sc)
    \/ \E u \in Users, ok \in BOOLEAN : FetchRoute(u, ok)
    \/ \E u \in Users, ok \in BOOLEAN : GetUserMemory(u, ok)
    \/ \E u \in Users, ok \in BOOLEAN : DeleteUserMemory(u, ok)

SpecMemoryApi == Init /\ [][NextMemoryApi]_vars

\* the tool call for transcript t with np preferences, ne patterns, nf facts
ContextRaw(t, np, ne, nf) ==
    [user_preferences |-> [i \in 1..np |-> Pref(t, i, 7)],
     emotional_patterns |-> [i \in 1..ne |-> Pat(t, i, "frequent")],
     memorable_facts |-> [i \in 1..nf |-> Fact(t, i, "high")],
     summary |-> <<"summary", t>>]

\* successful extractions with every combination of list lengths
ContextExtractions ==
    {[build |-> TRUE, llm |-> [kind |-> "tool_call", args |-> ContextRaw(1, np, ne, nf)],
      save_ok |-> TRUE] :
        np \in 0..MaxContext, ne \in 0..MaxContext, nf \in 0..MaxContext}

\* persona generations for a user whose record has lists of every length up to MaxContext
NextContext ==
    \/ \E sc \in ContextExtractions : ExtractMemories("u1", 1, sc)
    \/ \E p \in {"mentor", "therapist"} : GenerateResponse("q1", p, "u1", "none")

SpecContext == Init /\ [][NextContext]_vars

\* extract requests served at the same time, their steps interleaved
NextConcurrent ==
    \/ \E f \in FlowIds, u \in Users, t \in 0..MaxTranscript : FlowStart(f, u, t)
    \/ \E f \in FlowIds :
        \E sc \in {FullExtraction(flows[f].transcript),
                    [build |-> TRUE, llm |-> [kind |-> "raise"], save_ok |-> TRUE]} :
            FlowInvoke(f, sc)
    \/ \E f \in FlowIds, ok \in BOOLEAN : FlowSave(f, ok)

SpecConcurrent == Init /\ [][NextConcurrent]_vars

\* transform requests with a valid query and any list of names
SlotRequests == [user_id : {"u1"}, query : {"q1"}, personality_types : PersonaLists]

\* The multi-persona call, made directly with None or any list of names, or
\* made by the transform route for a request with a valid query; a call made
\* by the route returns to the route.
NextSlots ==
    \/ \E types \in TypesArguments : MultiStart("q1", types, "u1")
    \/ \E request \in SlotRequests : TransformStart(request)
    \/ \E f \in PersonaFaults : MultiStep(f)
    \/ last.op = "none" /\ MultiReturn
    \/ TransformReturn

SpecSlots == Init /\ [][NextSlots]_vars

\* Extract requests served at the same time as fetches and persona
\* generations for one user, which read the store between any two steps of
\* the requests.
NextReaders ==
    \/ \E f \in FlowIds, u \in Users, t \in 0..MaxTranscript : FlowStart(f, u, t)
    \/ \E f \in FlowIds :
        \E sc \in {FullExtraction(flows[f].transcript),
                    [build |-> TRUE, llm |-> [kind |-> "raise"], save_ok |-> TRUE]} :
            FlowInvoke(f, sc)
    \/ \E f \in FlowIds, ok \in BOOLEAN : FlowSave(f, ok)
    \/ FetchRoute("u1", TRUE)
    \/ GenerateResponse("q1", "mentor", "u1", "none")

SpecReaders == Init /\ [][NextReaders]_vars

---------------------------------------------------------------------------
(* Properties *)

\* the record the store holds for user_id, or None
Stored(user_id) == IF user_id \in DOMAIN store THEN store[user_id].value ELSE None

IsExtraction == last.op = "extract_memories"
IsGeneration == last.op = "generate_response"

\* C1: write-then-read consistency. A get_user_memory(u) that returns,
\* after a save for u that no later save or delete for u followed, returns
\* the record that save was given, whatever other calls came in between;
\* and the store holds that record for u all the while.
C1_WriteThenRead ==
    /\ (last.op = "get_user_memory" /\ last.err = NoErr
            /\ written[last.user_id] # None)
        => last.result = written[last.user_id]
    /\ \A u \in Users : written[u] # None => Stored(u) = written[u]

\* a read returns u's record while another user holds a different one
C1_Witness ==
    /\ last.op = "get_user_memory" /\ last.err = NoErr
    /\ last.result # None
    /\ \E v \in Users \ {last.user_id} :
            written[v] # None /\ written[v] # last.result

\* C2: extraction is all-or-nothing. A call of extract_memories that fails
\* leaves the record (or absence) of every user_id as it was; the store
\* changes in an extraction only when the call returns.
C2_AllOrNothing ==
    [][(last'.op = "extract_memories" /\ last'.err # NoErr) => store' = store]_vars

\* the store refused the save of a user who already had a record
C2_Witness ==
    /\ IsExtraction /\ last.raised = "StoreError"
    /\ last.prior # 0
    /\ TranscriptOf(Stored(last.user_id)) = last.prior

\* no text of transcript t is in the record
NoTraceOf(t, memory_data) ==
    /\ \A p \in Range(memory_data.user_preferences) : p.preference[2] # t /\ p.category[2] # t
    /\ \A p \in Range(memory_data.emotional_patterns) : p.pattern[2] # t /\ p.trigger[2] # t
    /\ \A f \in Range(memory_data.memorable_facts) : f.fact[2] # t /\ f.fact_type[2] # t
    /\ memory_data.summary[2] # t

\* C3: replace, not merge. After a successful extraction for a user_id that
\* held the record of another transcript, the stored record is exactly the
\* record this extraction returned and holds nothing of the earlier one.
C3_ReplaceNotMerge ==
    (IsExtraction /\ last.err = NoErr /\ last.prior \notin {0, last.transcript})
        => /\ Stored(last.user_id) = last.result
           /\ NoTraceOf(last.prior, Stored(last.user_id))

\* a second extraction, of another transcript, replaced a record with items
C3_Witness ==
    /\ IsExtraction /\ last.err = NoErr
    /\ last.prior \notin {0, last.transcript}
    /\ last.result.user_preferences # <<>>

\* the range and enum invariants of a MemoryRecord
RecordInRange(memory_data) ==
    /\ \A p \in Range(memory_data.user_preferences) :
            p.confidence >= 0 /\ p.confidence <= ConfScale
    /\ \A p \in Range(memory_data.emotional_patterns) : p.frequency \in FrequencyEnum
    /\ \A f \in Range(memory_data.memorable_facts) : f.importance \in ImportanceEnum

\* C4: no record that violates the confidence range or the frequency and
\* importance enums is ever returned by extract_memories or stored.
C4_RecordsInRange ==
    /\ (IsExtraction /\ last.err = NoErr) => RecordInRange(last.result)
    /\ \A u \in DOMAIN store : RecordInRange(store[u].value)

\* C5: the caller's user_id is authoritative. Every stored record carries
\* the user_id it is stored under, and a successful extraction for u
\* returns a record whose user_id is u.
C5_CallerUserIdWins ==
    /\ \A u \in DOMAIN store : store[u].value.user_id = u
    /\ (IsExtraction /\ last.err = NoErr) => last.result.user_id = last.user_id

\* C6: generate_response for a persona name outside the three fails with
\* InvalidInput, without an LLM invocation and without a store access.
C6_UnknownPersonaInvalidInput ==
    (IsGeneration /\ last.personality_type \notin Personas)
        => /\ last.err = "InvalidInputError"
           /\ last.llm_calls = 0
           /\ last.store_reads = 0

\* the persona generation failed: the persona is unknown or a collaborator failed
GenerationFails(personality_type, fault) ==
    personality_type \notin Personas \/ fault # "none"

\* the prompt a generation for the persona must send when the user's record is memory_data
ExpectedPrompt(personality_type, memory_data) ==
    IF memory_data = None THEN PERSONALITY_PROMPTS[personality_type]
    ELSE PERSONALITY_PROMPTS[personality_type] \o << <<"\n\n">> >>
         \o format_memory_context(memory_data)

\* the response of a persona generation nothing went wrong in
ExpectedResponse(personality_type, query, user_id) ==
    [personality_type |-> personality_type,
     response |-> LLMReply(ExpectedPrompt(personality_type, written[user_id]), query),
     tone_characteristics |-> get_tone_characteristics(personality_type),
     approach |-> get_approach_description(personality_type)]

\* C7: per-persona failure isolation. generate_personality_responses
\* returns whatever personas fail; it gives one slot per requested persona,
\* an error descriptor where the persona's generation (its last one, when
\* the list names it twice) failed, and elsewhere the response the persona
\* gives when nothing fails, wherever in the list the failing ones are.
C7_FailureIsolation ==
    last.op = "generate_personality_responses"
        => /\ last.err = NoErr
           /\ DOMAIN last.result = Range(last.personality_types)
           /\ \A p \in DOMAIN last.result :
                IF GenerationFails(p, last.faults[p])
                THEN /\ DOMAIN last.result[p] = {"error", "personality_type"}
                     /\ last.result[p].personality_type = p
                ELSE last.result[p] = ExpectedResponse(p, last.query, last.user_id)

\* the first persona of the list failed and a later one got its response
C7_Witness ==
    /\ last.op = "generate_personality_responses"
    /\ Len(last.personality_types) >= 2
    /\ GenerationFails(last.personality_types[1], last.faults[last.personality_types[1]])
    /\ \E i \in 2..Len(last.personality_types) :
            /\ last.personality_types[i] # last.personality_types[1]
            /\ ~GenerationFails(last.personality_types[i],
                                last.faults[last.personality_types[i]])
            /\ written[last.user_id] # None

\* C8: the prompt is composed on every invocation. Every generate_response
\* that reaches the LLM, also one served by a cached agent, sends the prompt
\* composed from what the store holds for the user at that call.
C8_PromptRecomposed ==
    (IsGeneration /\ last.prompt # NoText)
        => /\ last.prompt = ExpectedPrompt(last.personality_type, written[last.user_id])
           /\ (last.personality_type = seen.personality_type /\ last.user_id = seen.user_id)
                => seen.cur = last.prompt

\* a cached agent sent the context of a record that was not there, or was
\* another one, at the pair's previous call
C8_Witness ==
    /\ IsGeneration /\ last.cached /\ last.err = NoErr
    /\ written[last.user_id] # None
    /\ seen.prev # NoText
    /\ seen.prev # seen.cur
    /\ seen.cur = last.prompt

\* C9: for a user_id with no stored record, never saved or deleted, the
\* prompt sent for a persona is that persona's base template, nothing appended.
C9_NoMemoryBasePrompt ==
    (IsGeneration /\ last.prompt # NoText /\ written[last.user_id] = None
        /\ last.user_id \notin DOMAIN store)
        => last.prompt = PERSONALITY_PROMPTS[last.personality_type]

\* the pair's previous call sent a context block; the record was deleted since
C9_Witness ==
    /\ IsGeneration /\ last.err = NoErr
    /\ last.user_id \notin DOMAIN store
    /\ seen.prev # NoText
    /\ seen.prev # PERSONALITY_PROMPTS[last.personality_type]
    /\ seen.cur = last.prompt

\* C10: when the LLM gives a persona request no message or an empty
\* content, generate_response fails with StructuredOutputError; it never
\* returns a response whose text is empty.
C10_EmptyContentStructuredOutputError ==
    /\ (IsGeneration /\ last.fault \in {"empty", "no_messages"})
        => last.err = "StructuredOutputError"
    /\ (IsGeneration /\ last.err = NoErr) => last.result.response # <<>>

\* the record store st holds for user_id, or None
StoredIn(st, user_id) == IF user_id \in DOMAIN st THEN st[user_id].value ELSE None

\* the calls of the response generation pipeline, by agent method and by route
GenerationOps == {"generate_response", "generate_personality_responses",
                  "generate_generic_response", "transform_with_personality",
                  "route_get_generic_response"}

\* the call l is an extraction that succeeded for user_id and returned memory_data
SuccessfulExtraction(l, user_id, memory_data) ==
    CASE l.op = "extract_memories" ->
            l.err = NoErr /\ l.user_id = user_id /\ l.result = memory_data
      [] l.op = "route_extract_memories" ->
            l.status = 200 /\ l.user_id = user_id /\ l.body.data = memory_data
      [] OTHER -> FALSE

\* the call l is a delete that succeeded for user_id
SuccessfulDelete(l, user_id) ==
    l.op = "delete_user_memory" /\ l.err = NoErr /\ l.user_id = user_id

\* C11: the response generation pipeline never mutates the Memory Store.
\* A step of generate_response, of generate_personality_responses (alone or
\* under the transform route) or of the generic response, succeeding or
\* failing, leaves the store as it was; a user's record appears or changes
\* only in a successful extraction for that user, which returns it, and
\* disappears only in a successful delete for that user.
C11_PipelineNeverWrites ==
    [][/\ (last'.op \in GenerationOps \/ mp' # mp) => store' = store
       /\ \A u \in Users :
            StoredIn(store', u) # StoredIn(store, u)
                => IF StoredIn(store', u) = None
                   THEN SuccessfulDelete(last', u)
                   ELSE SuccessfulExtraction(last', u, StoredIn(store', u))]_vars

\* a transform request for a user with a record ended with one persona
\* failed and another answered
C11_Witness ==
    /\ last.op = "transform_with_personality" /\ last.status = 200
    /\ last.request.user_id \in DOMAIN store
    /\ \E p, q \in DOMAIN last.responses :
            /\ "error" \in DOMAIN last.responses[p]
            /\ "error" \notin DOMAIN last.responses[q]

\* C12: the generic response is memory-free and persona-free. Whatever the
\* store holds and whatever user_id the request names, a generic request
\* that passes the query check sends the prompt built from the query alone,
\* reads the store not at all, calls the LLM exactly once, and its outcome
\* is settled by the query and the LLM's behaviour.
C12_GenericIsMemoryFree ==
    (last.op = "route_get_generic_response" /\ last.request.query \notin {"", " "})
        => /\ last.prompt = GenericPrompt(last.request.query)
           /\ last.store_reads = 0
           /\ last.llm_calls = 1
           /\ last.status = IF last.fault = "none" THEN 200 ELSE 500
           /\ last.status = 200
                => last.body.generic_response
                        = LLMReply(GenericPrompt(last.request.query), last.request.query)

\* a generic response was given to a user who has a record
C12_Witness ==
    /\ last.op = "route_get_generic_response" /\ last.status = 200
    /\ last.request.user_id \in DOMAIN store

\* C13: the extract route refuses an empty message list with 400, without
\* calling the LLM and without touching the store; a failure of the
\* extraction itself is answered 500, and the route answers 200 only when
\* the list is not empty and the extraction returned.
C13_EmptyTranscriptRejected ==
    [][last'.op = "route_extract_memories"
        => /\ last'.transcript = 0
                => /\ last'.status = 400
                   /\ last'.llm_calls = 0
                   /\ store' = store
           /\ (last'.transcript # 0 /\ last'.raised # NoErr)
                => last'.status = 500 /\ last'.body = None
           /\ last'.status = 200
                => last'.transcript # 0 /\ last'.raised = NoErr]_vars

\* an empty list was refused for a user who has a record
C13_Witness ==
    /\ last.op = "route_extract_memories"
    /\ last.transcript = 0 /\ last.status = 400
    /\ last.user_id \in DOMAIN store

\* C14: not-found is not an error. With the backing store working,
\* get_user_memory for a user_id without a record returns None and does not
\* raise; the fetch route answers 404 only when no record is stored, 200
\* only with the stored record, and with the backing store working 404
\* exactly when no record is stored.
C14_NotFoundIsNotAnError ==
    /\ (last.op = "get_user_memory" /\ last.store_ok /\ last.user_id \notin DOMAIN store)
        => last.err = NoErr /\ last.result = None
    /\ last.op = "route_get_user_memories"
        => /\ last.status = 404 => last.user_id \notin DOMAIN store
           /\ last.status = 200
                => /\ last.user_id \in DOMAIN store
                   /\ last.body.memories = store[last.user_id].value
           /\ last.store_ok
                => last.status = IF last.user_id \in DOMAIN store THEN 200 ELSE 404

\* the fetch route answered 404 for one user while another has a record
C14_Witness ==
    /\ last.op = "route_get_user_memories" /\ last.status = 404
    /\ DOMAIN store # {}

\* the request has an empty or blank query, or names a persona outside the three
InvalidTransform(query, personality_types) ==
    \/ query \in {"", " "}
    \/ \E i \in DOMAIN personality_types :
            personality_types[i] \notin {"mentor", "friend", "therapist"}

\* C15: the transform route refuses the whole request with 400 when the
\* query is empty or blank or when any requested persona is unknown, also
\* when other requested personas are valid: no persona generation starts,
\* no LLM call is made, and no result mapping is returned.
C15_TransformRejectsWhole ==
    /\ (last.op = "transform_with_personality"
            /\ InvalidTransform(last.request.query, last.request.personality_types))
        => /\ last.status = 400
           /\ last.llm_calls = 0
           /\ last.responses = None
           /\ mp = Idle
    /\ mp.pc = "loop" => ~InvalidTransform(mp.query, mp.personality_types)

\* a request naming a valid persona first and an unknown one second was refused
C15_Witness ==
    /\ last.op = "transform_with_personality" /\ last.status = 400
    /\ last.request.query = "q1"
    /\ Len(last.request.personality_types) = 2
    /\ last.request.personality_types[1] \in Personas
    /\ last.request.personality_types[2] \notin Personas

\* C16: a Memory Store failure is never swallowed. A failing store
\* operation raises StoreError and nothing else, and an extract, fetch or
\* transform request during which a store operation failed is answered 500.
C16_StoreFailureIsServerError ==
    /\ (last.op \in {"get_user_memory", "delete_user_memory", "list_user_memories"}
            /\ last.err # NoErr)
        => last.err = "StoreError"
    /\ (last.op = "route_extract_memories" /\ last.transcript # 0 /\ ~last.save_ok)
        => last.status = 500
    /\ (last.op = "route_get_user_memories" /\ ~last.store_ok) => last.status = 500
    /\ (last.op = "transform_with_personality" /\ last.status \notin {0, 400}
            /\ \E p \in DOMAIN last.faults : last.faults[p] = "store")
        => last.status = 500

\* the tone tags and the approach of each persona
ToneOf ==
    [mentor |-> <<"patient", "educational", "encouraging", "experienced">>,
     friend |-> <<"witty", "supportive", "casual", "genuine">>,
     therapist |-> <<"empathetic", "validating", "reflective", "non-judgmental">>]
ApproachOf ==
    [mentor |-> "Provides structured guidance with learning focus",
     friend |-> "Offers support with casual, relatable tone",
     therapist |-> "Uses active listening and emotional validation"]

\* the response carries the persona asked for and that persona's fixed metadata
StaticMetadata(response, personality_type) ==
    /\ response.personality_type = personality_type
    /\ response.tone_characteristics = ToneOf[personality_type]
    /\ response.approach = ApproachOf[personality_type]

\* C17: every successful persona response, of generate_response and of
\* each slot of a transform request, names the persona asked for and
\* carries that persona's fixed tone tags and approach, whatever the query,
\* the user, the stored memory and the LLM's text.
C17_StaticToneAndApproach ==
    /\ (IsGeneration /\ last.err = NoErr)
        => StaticMetadata(last.result, last.personality_type)
    /\ (last.op = "transform_with_personality" /\ last.status = 200)
        => \A p \in DOMAIN last.responses :
                "error" \notin DOMAIN last.responses[p]
                    => StaticMetadata(last.responses[p], p)

\* a cached agent answered the second query for a user who has a record
C17_Witness ==
    /\ IsGeneration /\ last.err = NoErr
    /\ last.query = "q2" /\ last.cached
    /\ last.personality_type # "mentor"
    /\ last.user_id \in DOMAIN store

\* where the token is in the string
Positions(string, token) == {i \in DOMAIN string : string[i] = token}

\* one group of the context block: the texts of the first limit items are
\* in the prompt once, those of the others not at all; a list with items
\* has its label once, followed by the shown texts in stored order with
\* ", " between them and a newline after; an empty list has no label
GroupShown(prompt, label, key, items, limit) ==
    LET shown == IF Len(items) < limit THEN Len(items) ELSE limit
    IN  /\ \A i \in DOMAIN items :
                Cardinality(Positions(prompt, items[i][key])) = IF i <= limit THEN 1 ELSE 0
        /\ IF items = <<>> THEN Positions(prompt, <<label>>) = {}
           ELSE /\ Cardinality(Positions(prompt, <<label>>)) = 1
                /\ \E a \in Positions(prompt, <<label>>) :
                     /\ a + 2 * shown <= Len(prompt)
                     /\ \A i \in 1..shown : prompt[a + 2 * i - 1] = items[i][key]
                     /\ \A i \in 1..(shown - 1) : prompt[a + 2 * i] = <<", ">>
                     /\ prompt[a + 2 * shown] = <<"\n">>

\* C18: with a record stored for the user, the prompt holds the preference
\* text of the first 3 preferences, the pattern text of the first 2
\* patterns and the fact text of the first 2 facts, each group in stored
\* order on its own labelled line, the lines in that order; no other text
\* of the record and no item past the limits is in the prompt, and an
\* empty list gives no line.
C18_ContextBlockLimits ==
    (IsGeneration /\ last.err = NoErr /\ last.user_id \in DOMAIN store)
        => LET m == store[last.user_id].value
           IN  /\ GroupShown(last.prompt, "Preferences: ", "preference", m.user_preferences, 3)
               /\ GroupShown(last.prompt, "Emotional patterns: ", "pattern", m.emotional_patterns, 2)
               /\ GroupShown(last.prompt, "Key facts: ", "fact", m.memorable_facts, 2)
               /\ \A a \in Positions(last.prompt, <<"Preferences: ">>),
                     b \in Positions(last.prompt, <<"Emotional patterns: ">>) : a < b
               /\ \A b \in Positions(last.prompt, <<"Emotional patterns: ">>)
                            \cup Positions(last.prompt, <<"Preferences: ">>),
                     c \in Positions(last.prompt, <<"Key facts: ">>) : b < c
               /\ \A i \in DOMAIN last.prompt :
                     last.prompt[i][1] \notin {"category", "trigger", "fact_type", "summary"}

\* the record has more preferences and facts than are shown, and no pattern
C18_Witness ==
    /\ IsGeneration /\ last.err = NoErr /\ last.user_id \in DOMAIN store
    /\ Len(store[last.user_id].value.user_preferences) > 3
    /\ store[last.user_id].value.emotional_patterns = <<>>
    /\ Len(store[last.user_id].value.memorable_facts) > 2

\* C19: the generic response is all-or-nothing. When the LLM call fails or
\* gives empty content, generate_generic_response fails with
\* PersonalityGenerationError and returns no text; it fails with no other
\* kind, and the text it returns is never empty.
C19_GenericAllOrNothing ==
    last.op = "generate_generic_response"
        => /\ last.fault # "none"
                => last.err = "PersonalityGenerationError" /\ last.result = NoText
           /\ last.err \in {NoErr, "PersonalityGenerationError"}
           /\ last.err = NoErr => last.result # <<>> /\ last.result # NoText

\* the LLM gave empty content and the call failed
C19_Witness ==
    /\ last.op = "generate_generic_response"
    /\ last.fault = "empty"
    /\ last.err = "PersonalityGenerationError"

\* the requests whose save for user_id has been executed
SaversOf(user_id) ==
    {f \in FlowIds : flows[f].user_id = user_id /\ flows[f].saved_at > 0}

\* the one of them whose save was executed last
LastSaver(user_id) ==
    CHOOSE f \in SaversOf(user_id) :
        \A g \in SaversOf(user_id) : flows[g].saved_at <= flows[f].saved_at

\* C20: last write wins per user_id. However the steps of concurrent
\* extract requests interleave, the record stored for a user_id is at every
\* moment, and so when all have finished, the record of the save for that
\* user_id executed last, or none when no save for it was executed; the
\* saves for other user_ids, their number, order and outcome, do not
\* enter into it.
C20_LastWriteWins ==
    \A u \in Users :
        StoredIn(store, u) = IF SaversOf(u) = {} THEN None
                             ELSE flows[LastSaver(u)].memory_data

\* two requests for one user with different transcripts have finished, the
\* save of the second executed before that of the first
C20_Witness ==
    /\ \A f \in FlowIds : flows[f].pc = "done"
    /\ flows[1].user_id = flows[2].user_id
    /\ flows[1].transcript # flows[2].transcript
    /\ flows[2].saved_at > 0
    /\ flows[1].saved_at > flows[2].saved_at

\* C21: list_user_memories returns the complete mapping from user_id to
\* stored record: with the backing store working the call succeeds, the
\* keys of its result are exactly the user_ids that have a record, each is
\* mapped to the record get_user_memory returns for it, and none is left
\* out however many there are.
C21_ListIsComplete ==
    (last.op = "list_user_memories" /\ last.store_ok)
        => /\ last.err = NoErr
           /\ last.result = [u \in DOMAIN store |-> StoredIn(store, u)]

\* C22: extraction and fetch agree. The data a successful request to the
\* extract route returns for a user_id is the record then stored for that
\* user_id, and every later fetch for that user_id that reaches the store
\* answers 200 with that same record, until another extraction saves for
\* that user_id or a delete removes its record.
C22_FetchReturnsExtracted ==
    /\ (last.op = "route_extract_memories" /\ last.status = 200)
        => /\ written[last.user_id] = last.body.data
           /\ StoredIn(store, last.user_id) = last.body.data
    /\ (last.op = "route_get_user_memories" /\ last.store_ok
            /\ written[last.user_id] # None)
        => /\ last.status = 200
           /\ last.body.memories = written[last.user_id]

\* a fetch returned a record that an extraction with a non-empty list of
\* preferences had returned and saved
C22_Witness ==
    /\ last.op = "route_get_user_memories"
    /\ last.status = 200
    /\ last.body.memories = written[last.user_id]
    /\ last.body.memories.user_preferences # <<>>

\* the slots of a result mapping that hold a response, not an error descriptor
GoodSlots(responses) ==
    {p \in DOMAIN responses : "error" \notin DOMAIN responses[p]}

\* C23: the analysis of the transform route is a function of the query and
\* the result mapping alone. When the route answers, the count it reports is
\* the number of slots without an error descriptor, the descriptive line of
\* a persona is present exactly when that persona has a slot and the slot
\* is not an error descriptor, and building the analysis invokes no LLM and
\* touches neither the store nor the cached agents.
C23_AnalysisIsAFunctionOfTheMapping ==
    [][(/\ last.op = "transform_with_personality" /\ last.status = 0
        /\ last'.op = "transform_with_personality" /\ last'.status = 200)
        => /\ last'.responses = mp.responses
           /\ last'.analysis.query = last.request.query
           /\ last'.analysis.success_count = Cardinality(GoodSlots(mp.responses))
           /\ \A p \in Personas :
                 p \in Range(last'.analysis.approaches) <=> p \in GoodSlots(mp.responses)
           /\ last'.llm_calls = mp.llm_calls
           /\ store' = store /\ agents' = agents]_vars

\* the route answered with one slot holding a response and another an error
\* descriptor, and the analysis counted one
C23_Witness ==
    /\ last.op = "transform_with_personality"
    /\ last.status = 200
    /\ Cardinality(DOMAIN last.responses) = 2
    /\ last.analysis.success_count = 1
    /\ Len(last.analysis.approaches) = 1

\* C25: a missing or mistyped structured response is a StructuredOutputError.
\* When the agent's result has no 'structured_response' entry, also when it
\* has an 'output' entry instead, or the entry is not a
\* MemoryExtractionResult, extract_memories fails with
\* StructuredOutputError, returns nothing and saves nothing.
C25_MissingStructuredResponse ==
    (IsExtraction /\ last.answer \in {"text", "wrong_type", "output"})
        => /\ last.err = "StructuredOutputError"
           /\ last.result = None
           /\ TranscriptOf(Stored(last.user_id)) = last.prior

\* C26: typed failures. Whatever is raised underneath (by the agent
\* framework, the LLM, the store, or a lookup in the method itself),
\* extract_memories fails only with MemoryExtractionError or
\* StructuredOutputError, generate_response only with
\* PersonalityGenerationError or StructuredOutputError, and
\* generate_generic_response only with PersonalityGenerationError; a call
\* that fails returns nothing.
C26_TypedFailures ==
    /\ IsExtraction
        => /\ last.err \in {NoErr, "MemoryExtractionError", "StructuredOutputError"}
           /\ last.raised \notin {NoErr, "MemoryExtractionError", "StructuredOutputError"}
                => last.err = "MemoryExtractionError"
           /\ last.err # NoErr => last.result = None
    /\ IsGeneration
        => /\ last.err \in {NoErr, "PersonalityGenerationError", "StructuredOutputError"}
           /\ last.fault # "none" => last.err # NoErr
           /\ last.err # NoErr => last.result = None
    /\ last.op = "generate_generic_response"
        => /\ last.err \in {NoErr, "PersonalityGenerationError"}
           /\ last.fault # "none" => last.err # NoErr
           /\ last.err # NoErr => last.result = NoText

\* the store refused the save of a validated record and extract_memories
\* failed with MemoryExtractionError
C26_Witness ==
    /\ IsExtraction
    /\ last.raised = "StoreError"
    /\ last.err = "MemoryExtractionError"

\* a slot is a PersonaResponse or an error descriptor, and names its key
IsSlotOf(slot, p) ==
    /\ \/ DOMAIN slot = {"personality_type", "response", "tone_characteristics", "approach"}
       \/ DOMAIN slot = {"error", "personality_type"}
    /\ slot.personality_type = p

\* a result mapping has one slot for each persona named in the list types
\* and no other key
SlotsFor(responses, types) ==
    /\ DOMAIN responses = Range(types)
    /\ \A p \in DOMAIN responses : IsSlotOf(responses[p], p)

\* C27: shape of the multi-persona result. The mapping has exactly one slot
\* for each distinct persona requested and no other key: all three personas
\* when generate_personality_responses is given no list or the transform
\* route is given an empty one. Each slot is a PersonaResponse or an error
\* descriptor whose personality_type is its key, and the call makes at most
\* one LLM invocation for each entry of the list, also while it is running.
C27_OneSlotPerPersona ==
    /\ (last.op = "generate_personality_responses" /\ last.err = NoErr)
        => LET types == IF last.requested.given THEN last.requested.list
                        ELSE AllPersonas
           IN  /\ SlotsFor(last.result, types)
               /\ last.llm_calls <= Len(types)
    /\ (last.op = "transform_with_personality" /\ last.status = 200)
        => LET types == IF last.request.personality_types = <<>> THEN AllPersonas
                        ELSE last.request.personality_types
           IN  /\ SlotsFor(last.responses, types)
               /\ last.llm_calls <= Len(types)
    /\ mp.pc = "loop"
        => /\ SlotsFor(mp.responses, Take(mp.personality_types, mp.i - 1))
           /\ mp.llm_calls <= mp.i - 1

\* a list naming one persona twice gave one slot, an error descriptor, from
\* two LLM invocations
C27_Witness ==
    /\ last.op = "generate_personality_responses"
    /\ last.err = NoErr
    /\ last.requested.given
    /\ Len(last.requested.list) = 2
    /\ Cardinality(DOMAIN last.result) = 1
    /\ \A p \in DOMAIN last.result : "error" \in DOMAIN last.result[p]
    /\ last.llm_calls = 2

\* C28: partial failure still succeeds. A transform request with a
\* non-empty query and only valid persona names, once answered, is answered
\* 200 with status "success" and a slot for every requested persona,
\* whichever generations failed; when all of them failed every slot is an
\* error descriptor and the analysis reports 0 responses. A failure of a
\* persona never becomes an HTTP error.
C28_PartialFailureStillSucceeds ==
    (/\ last.op = "transform_with_personality"
     /\ ~InvalidTransform(last.request.query, last.request.personality_types)
     /\ last.status # 0)
        => LET types == IF last.request.personality_types = <<>> THEN AllPersonas
                        ELSE last.request.personality_types
           IN  /\ last.status = 200
               /\ DOMAIN last.responses = Range(types)
               /\ \A p \in Range(types) :
                     last.faults[p] # "none" => "error" \in DOMAIN last.responses[p]
               /\ (\A p \in Range(types) : "error" \in DOMAIN last.responses[p])
                     => /\ last.analysis.success_count = 0
                        /\ last.analysis.approaches = <<>>

\* the generation failed for each of two requested personas, once on the
\* store and once on the LLM, and the route answered 200
C28_Witness ==
    /\ last.op = "transform_with_personality"
    /\ last.status = 200
    /\ Cardinality(DOMAIN last.responses) = 2
    /\ \A p \in DOMAIN last.responses : "error" \in DOMAIN last.responses[p]
    /\ {last.faults[p] : p \in DOMAIN last.faults} = {"store", "llm"}
    /\ last.analysis.success_count = 0

\* the record a reader of user_id's entry may observe: that of the save for
\* user_id executed last, whole, or none when no save for it was executed
ObservableRecord(user_id) ==
    IF SaversOf(user_id) = {} THEN None ELSE flows[LastSaver(user_id)].memory_data

\* the system prompt composed for personality_type from record
PromptFrom(personality_type, record) ==
    IF Truthy(record)
    THEN BasePrompt(personality_type) \o << <<"\n\n">> >> \o format_memory_context(record)
    ELSE BasePrompt(personality_type)

\* C29: record replacement is atomic for readers. A fetch, or the
\* composition of a persona prompt, for a user_id, taking place between any
\* two steps of the extract requests being served, observes the whole
\* record of the last save executed for that user_id, or no record when
\* none was executed: never a mixture of two records and never a record
\* still being built by a request that has not saved.
C29_ReadersSeeWholeRecords ==
    [][/\ (last'.op = "route_get_user_memories" /\ flows' = flows)
            => IF ObservableRecord(last'.user_id) = None
               THEN last'.status = 404
               ELSE /\ last'.status = 200
                    /\ last'.body.memories = ObservableRecord(last'.user_id)
       /\ (last'.op = "generate_response" /\ flows' = flows)
            => last'.prompt = PromptFrom(last'.personality_type,
                                         ObservableRecord(last'.user_id))]_vars

\* a fetch saw the whole record of the first of two requests for one user
\* while the second, with another transcript, had its record built and not
\* yet saved
C29_Witness ==
    /\ last.op = "route_get_user_memories"
    /\ last.status = 200
    /\ \E f, g \in FlowIds :
          /\ flows[f].user_id = last.user_id /\ flows[g].user_id = last.user_id
          /\ flows[f].saved_at > 0
          /\ flows[g].pc = "save"
          /\ flows[f].transcript # flows[g].transcript
          /\ last.body.memories = flows[f].memory_data
          /\ last.body.memories # flows[g].memory_data

\* C30: delete removes exactly one record. A delete_user_memory(u) that the
\* backing store carries out succeeds whether or not u has a record, and
\* leaves the store as it was but for u's record; a failed one changes
\* nothing. Afterwards get_user_memory(u) returns absent until the next
\* save for u, and a record leaves the store only in a successful delete
\* for its user_id.
C30_DeleteRemovesExactlyOne ==
    [][/\ last'.op = "delete_user_memory"
            => /\ last'.store_ok => last'.err = NoErr
               /\ last'.err = NoErr
                    => store' = [u \in DOMAIN store \ {last'.user_id} |-> store[u]]
               /\ last'.err # NoErr => store' = store
       /\ \A u \in Users :
             (u \in DOMAIN store /\ u \notin DOMAIN store') => SuccessfulDelete(last', u)
       /\ (last'.op = "get_user_memory" /\ last'.store_ok
                /\ written'[last'.user_id] = None)
            => last'.err = NoErr /\ last'.result = None]_vars

\* a delete removed the record of one user while another user's record stayed
C30_Witness ==
    /\ last.op = "delete_user_memory"
    /\ last.had
    /\ last.err = NoErr
    /\ last.user_id \notin DOMAIN store
    /\ DOMAIN store # {}

=============================================================================
